---- MODULE Spec2Model ----
(***************************************************************************)
(* A model of tablet-mode: the mode setter (tabletmode/cli.py) and the     *)
(* mode daemon (tabletmode/daemon.py).                                     *)
(*                                                                         *)
(* Every external command is one step of the model: the program builds an  *)
(* argument vector, the environment answers with an outcome (the command   *)
(* ran and exited with a status, or it could not be executed at all), and  *)
(* the wrapper turns the outcome into its result.  The two systemd units   *)
(* and the on-screen-keyboard setting are the environment's state.         *)
(***************************************************************************)
EXTENDS Integers, Sequences, FiniteSets, TLC

VARIABLES
    laptopActive,   \* laptop-mode.service is running
    tabletActive,   \* tablet-mode.service is running
    oskEnabled,     \* org.gnome.desktop.a11y.applications screen-keyboard-enabled
    execFaults,     \* the environment may fail to execute a binary (OSError)
    pc,             \* position of the mode setter's control thread
    step,           \* index of the next statement of the running mode function
    mainLocals,     \* main(): args.mode, args.notify, config, notify, sudo
    toggleArgs,     \* toggle_mode(notify, sudo) as called
    modeArgs,       \* default_mode / laptop_mode / tablet_mode (notify, sudo) as called
    calls,          \* the external calls of this invocation, in order, with results
    stderrOut,      \* what main() printed to stderr
    normal,         \* history: at most one unit ran at first and every stop/start since took effect
    opNormal,       \* history: every systemctl call of this invocation behaved normally
    pre,            \* history: the units' states when this invocation began
    prev,           \* history: the previous invocation, if a toggle under normal operation
    dpc,            \* position of the daemon's control thread
    dconfig,        \* the configuration the daemon loaded
    dmode,          \* set_mode(mode)
    devices,        \* set_mode: devices
    dlog,           \* what the daemon logged at level INFO
    subprocesses,   \* set_mode: the list of Popen handles, in order of spawning
    nextDevice,     \* set_mode: index of the for-loop over devices
    nextWait,       \* set_mode: index of the for-loop over subprocesses
    children,       \* per spawned child: its argv, whether it has exited, its exit code
    events          \* history: the daemon's spawns and completed waits, in order

cliVars == <<laptopActive, tabletActive, oskEnabled, execFaults, pc, step, mainLocals,
             toggleArgs, modeArgs, calls, stderrOut, normal, opNormal, pre, prev>>
daemonVars == <<dpc, dconfig, dmode, devices, dlog, subprocesses, nextDevice, nextWait,
                children, events>>
vars == <<cliVars, daemonVars>>

----------------------------------------------------------------------------
(* Constants of cli.py *)

LAPTOP_MODE_SERVICE == "laptop-mode.service"
TABLET_MODE_SERVICE == "tablet-mode.service"
SUDO == "/usr/bin/sudo"

(* Exit statuses an external command may produce: success and failure. *)
ExitCodes == {0, 1}

(* Paths a configuration may give for sudo. *)
SudoPaths == {SUDO, "/usr/local/bin/doas"}

(* The outcome of asking the operating system to run a command. *)
Exited(rc) == [spawned |-> TRUE, rc |-> rc]
NotExecuted == [spawned |-> FALSE, rc |-> 0]
Outcomes == {Exited(rc) : rc \in ExitCodes}
            \cup (IF execFaults THEN {NotExecuted} ELSE {})

(* subprocess.check_call: returns on exit status 0, raises CalledProcessError
   on any other status, and lets the OSError of a failed exec through. *)
check_call(outcome) ==
    IF ~outcome.spawned THEN "OSError"
    ELSE IF outcome.rc # 0 THEN "CalledProcessError"
    ELSE "returned"

(* subprocess.run(check=False): returns whatever the exit status. *)
run(outcome) ==
    IF ~outcome.spawned THEN "OSError" ELSE "returned"

----------------------------------------------------------------------------
(* The wrappers of cli.py.  A wrapper's result is what its caller sees: a
   returned boolean, or an exception that propagates. *)

Return(v) == [raised |-> "", value |-> v]
Raise(e) == [raised |-> e, value |-> FALSE]
Raised(result) == result.raised # ""

(* systemctl(): command = [sudo] if root else []; command += [...] *)
systemctl_command(action, unit, root, sudo) ==
    (IF root THEN <<sudo>> ELSE <<>>) \o <<"systemctl", action, unit>>

(* Faulty variant: no except clause, CalledProcessError reaches the caller. *)
systemctl_Uncaught(outcome) ==
    LET r == check_call(outcome)
    IN  IF r = "returned" THEN Return(TRUE) ELSE Raise(r)

(* systemctl(): try: check_call(...) except CalledProcessError: return False;
   return True *)
systemctl(outcome) ==
    LET r == check_call(outcome)
    IN  IF r = "CalledProcessError" THEN Return(FALSE)
        ELSE IF r = "returned" THEN Return(TRUE)
        ELSE Raise(r)

(* str(state) and str.lower() on the two strings str(bool) produces. *)
str(b) == IF b THEN "True" ELSE "False"
(* Faulty variant: str(state) without .lower() *)
lower_Identity(s) == s
lower(s) == CASE s = "True" -> "true"
              [] s = "False" -> "false"
              [] OTHER -> s

(* set_osk_state(): the gsettings command *)
osk_command(state) ==
    <<"/usr/bin/gsettings", "set", "org.gnome.desktop.a11y.applications",
      "screen-keyboard-enabled", lower(str(state))>>

(* set_osk_state(): the same try/except as systemctl() *)
set_osk_state(outcome) ==
    LET r == check_call(outcome)
    IN  IF r = "CalledProcessError" THEN Return(FALSE)
        ELSE IF r = "returned" THEN Return(TRUE)
        ELSE Raise(r)

(* notify_send(): command = [notify-send, summary] (+ [body]); run(check=False) *)
notify_command(summary, body) == <<"/usr/bin/notify-send", summary, body>>

notify_send(outcome) ==
    LET r == run(outcome)
    IN  IF r = "returned" THEN Return(TRUE) ELSE Raise(r)

notify_laptop_mode == notify_command("Laptop mode.", "The system is now in laptop mode.")
notify_tablet_mode == notify_command("Tablet mode.", "The system is now in tablet mode.")
notify_default_mode == notify_command("Default mode.", "The system is now in default mode.")

----------------------------------------------------------------------------
(* The environment: systemd and the desktop settings. *)

UnitActive(unit) ==
    IF unit = LAPTOP_MODE_SERVICE THEN laptopActive ELSE tabletActive

(* What systemctl can answer: "status" exits 0 only for an active unit. *)
SystemctlOutcomes(action, unit) ==
    {o \in Outcomes :
        (action = "status" /\ o.spawned /\ o.rc = 0) => UnitActive(unit)}

(* A stop or start that exits 0 has taken effect; any other outcome leaves
   the unit as it was. *)
UnitAfter(u, action, unit, outcome) ==
    IF unit = u /\ outcome.spawned /\ outcome.rc = 0 /\ action \in {"stop", "start"}
    THEN action = "start"
    ELSE UnitActive(u)

(* gsettings set <schema> <key> <value>: a boolean key takes the literals
   "true" and "false" only, any other value makes gsettings exit non-zero;
   exit 0 means the key now holds the value. *)
OskOutcomes(argv) ==
    {o \in Outcomes :
        (o.spawned /\ o.rc = 0) => argv[Len(argv)] \in {"true", "false"}}
OskAfter(argv, outcome) ==
    IF outcome.spawned /\ outcome.rc = 0 THEN argv[Len(argv)] = "true" ELSE oskEnabled

(* Normal operation of one systemctl call: it ran, a stop/start exited 0, and
   status told the truth. *)
StopStartOk(action, outcome) ==
    action \in {"stop", "start"} => (outcome.spawned /\ outcome.rc = 0)
StatusOk(action, unit, outcome) ==
    action = "status" => (outcome.spawned /\ (outcome.rc = 0 <=> UnitActive(unit)))

----------------------------------------------------------------------------
(* Configuration (tabletmode/config.py): a mapping with optional keys. *)

Get(config, key, default) ==
    IF key \in DOMAIN config THEN config[key] ELSE default

CliConfigs ==
    {<<>>}
    \cup {[k \in {"notify"} |-> n] : n \in BOOLEAN}
    \cup {[k \in {"sudo"} |-> s] : s \in SudoPaths}
    \cup {[k \in {"notify", "sudo"} |-> IF k = "notify" THEN n ELSE s] :
            n \in BOOLEAN, s \in SudoPaths}

----------------------------------------------------------------------------
(* The mode setter, cli.py *)

Modes == {"toggle", "laptop", "tablet", "default"}
NoMode == "none"                      \* no subcommand given: args.mode is None
NoArgs == [fn |-> "none", notify |-> FALSE, sudo |-> SUDO]
NoInvocation == [mode |-> NoMode, pre |-> <<FALSE, FALSE>>, post |-> <<FALSE, FALSE>>,
                 osk |-> <<>>]

(* Faulty variant: args.notify is ignored. *)
main_notify_ConfigOnly(config, argNotify) == Get(config, "notify", FALSE)

(* main(): notify = config.get('notify', False) or args.notify *)
main_notify(config, argNotify) ==
    IF Get(config, "notify", FALSE) THEN Get(config, "notify", FALSE) ELSE argNotify

(* main(): sudo = config.get('sudo', SUDO) *)
main_sudo(config) == Get(config, "sudo", SUDO)

(* The last arguments of this invocation's gsettings calls, in order. *)
OskArgs(cs) ==
    LET osk == SelectSeq(cs, LAMBDA c : c.wrapper = "set_osk_state")
    IN  [i \in 1..Len(osk) |-> osk[i].argv[Len(osk[i].argv)]]

(* The invocation that is ending, as the next one will remember it: a
   toggle that returned and met only normal systemctl calls is remembered,
   anything else is not. *)
ThisInvocation ==
    IF pc = "done" /\ mainLocals.mode = "toggle" /\ opNormal
    THEN [mode |-> mainLocals.mode, pre |-> pre,
          post |-> <<laptopActive, tabletActive>>, osk |-> OskArgs(calls)]
    ELSE NoInvocation

(* The bodies of the three mode functions: their statements in order.  The
   last statement, the notification, is under "if notify:". *)
Systemctl(action, unit) == [call |-> "systemctl", action |-> action, unit |-> unit]
SetOsk(state) == [call |-> "set_osk_state", state |-> state]
Notify(command) == [call |-> "notify_send", command |-> command]

default_mode ==
    << Systemctl("stop", LAPTOP_MODE_SERVICE),
       Systemctl("stop", TABLET_MODE_SERVICE),
       SetOsk(FALSE),
       Notify(notify_default_mode) >>

(* Faulty variant: laptop-mode.service is started before tablet-mode.service is stopped. *)
laptop_mode_StartFirst ==
    << Systemctl("start", LAPTOP_MODE_SERVICE),
       Systemctl("stop", TABLET_MODE_SERVICE),
       SetOsk(FALSE),
       Notify(notify_laptop_mode) >>

laptop_mode ==
    << Systemctl("stop", TABLET_MODE_SERVICE),
       Systemctl("start", LAPTOP_MODE_SERVICE),
       SetOsk(FALSE),
       Notify(notify_laptop_mode) >>

(* Faulty variant: tablet-mode.service is started and laptop-mode.service never stopped. *)
tablet_mode_NoStop ==
    << Systemctl("start", TABLET_MODE_SERVICE),
       SetOsk(TRUE),
       Notify(notify_tablet_mode) >>

tablet_mode ==
    << Systemctl("stop", LAPTOP_MODE_SERVICE),
       Systemctl("start", TABLET_MODE_SERVICE),
       SetOsk(TRUE),
       Notify(notify_tablet_mode) >>

Body(fn) ==
    CASE fn = "default" -> default_mode
      [] fn = "laptop" -> laptop_mode
      [] fn = "tablet" -> tablet_mode
      [] OTHER -> <<>>

(* main(): parse the arguments, load the configuration, dispatch on args.mode. *)
Main ==
    /\ pc \in {"idle", "done", "crashed"}
    /\ \E mode \in Modes \cup {NoMode}, argNotify \in BOOLEAN, config \in CliConfigs :
         /\ mainLocals' = [mode |-> mode, argNotify |-> argNotify, config |-> config,
                           notify |-> main_notify(config, argNotify),
                           sudo |-> main_sudo(config)]
         /\ toggleArgs' = IF mode = "toggle"
                          THEN [fn |-> "toggle_mode", notify |-> mainLocals'.notify,
                                sudo |-> mainLocals'.sudo]
                          ELSE NoArgs
         /\ modeArgs' = IF mode \in {"default", "laptop", "tablet"}
                        THEN [fn |-> mode, notify |-> mainLocals'.notify,
                              sudo |-> mainLocals'.sudo]
                        ELSE NoArgs
         /\ pc' = CASE mode = "toggle" -> "toggle_mode"
                    [] mode \in {"default", "laptop", "tablet"} -> "mode"
                    [] OTHER -> "done"
         /\ stderrOut' = IF mode = NoMode THEN <<"Must specify a mode.">> ELSE <<>>
    /\ step' = 1
    /\ calls' = <<>>
    /\ opNormal' = TRUE
    /\ pre' = <<laptopActive, tabletActive>>
    /\ prev' = ThisInvocation
    /\ UNCHANGED <<laptopActive, tabletActive, oskEnabled, execFaults, normal>>
    /\ UNCHANGED daemonVars

(* One call of systemctl(action, unit, root=root, sudo=sudo): the command
   runs, systemd changes the unit if it succeeded, and the wrapper's result
   is logged. *)
SystemctlCall(action, unit, root, sudo) ==
    \E outcome \in SystemctlOutcomes(action, unit) :
        /\ calls' = Append(calls, [wrapper |-> "systemctl",
                                   argv |-> systemctl_command(action, unit, root, sudo),
                                   outcome |-> outcome, result |-> systemctl(outcome)])
        /\ laptopActive' = UnitAfter(LAPTOP_MODE_SERVICE, action, unit, outcome)
        /\ tabletActive' = UnitAfter(TABLET_MODE_SERVICE, action, unit, outcome)
        /\ normal' = (normal /\ StopStartOk(action, outcome))
        /\ opNormal' = (opNormal /\ StopStartOk(action, outcome)
                                 /\ StatusOk(action, unit, outcome))
        /\ UNCHANGED oskEnabled

(* One call of set_osk_state(state). *)
OskCall(state) ==
    \E outcome \in OskOutcomes(osk_command(state)) :
        /\ calls' = Append(calls, [wrapper |-> "set_osk_state",
                                   argv |-> osk_command(state),
                                   outcome |-> outcome, result |-> set_osk_state(outcome)])
        /\ oskEnabled' = OskAfter(osk_command(state), outcome)
        /\ UNCHANGED <<laptopActive, tabletActive, normal, opNormal>>

(* One call of notify_send(summary, body). *)
NotifyCall(command) ==
    \E outcome \in Outcomes :
        /\ calls' = Append(calls, [wrapper |-> "notify_send", argv |-> command,
                                   outcome |-> outcome, result |-> notify_send(outcome)])
        /\ UNCHANGED <<laptopActive, tabletActive, oskEnabled, normal, opNormal>>

LastResult(cs) == cs[Len(cs)].result

(* toggle_mode(): if systemctl('status', TABLET_MODE_SERVICE): laptop_mode(...)
   else: tablet_mode(...) *)
(* Faulty variant: the branches of toggle_mode swapped. *)
toggle_target_Inverted(active) == IF active THEN "tablet" ELSE "laptop"

toggle_target(active) == IF active THEN "laptop" ELSE "tablet"
(* Faulty variant: the callee runs with its default arguments. *)
toggle_callee_args_Defaults(target) == [fn |-> target, notify |-> FALSE, sudo |-> SUDO]

toggle_callee_args(target) ==
    [fn |-> target, notify |-> toggleArgs.notify, sudo |-> toggleArgs.sudo]

ToggleMode ==
    /\ pc = "toggle_mode"
    /\ SystemctlCall("status", TABLET_MODE_SERVICE, FALSE, SUDO)
    /\ IF Raised(LastResult(calls'))
       THEN pc' = "crashed" /\ UNCHANGED modeArgs
       ELSE /\ pc' = "mode"
            /\ modeArgs' = toggle_callee_args(toggle_target(LastResult(calls').value))
    /\ UNCHANGED <<execFaults, step, mainLocals, toggleArgs, stderrOut, pre, prev>>
    /\ UNCHANGED daemonVars

(* Faulty variant: a mode function returns early when a step returned False. *)
AfterStatement_AbortOnFailure(k, result) ==
    IF Raised(result) THEN <<"crashed", k>>
    ELSE IF ~result.value THEN <<"done", k + 1>>
    ELSE IF k + 1 > Len(Body(modeArgs.fn)) THEN <<"done", k + 1>>
    ELSE IF Body(modeArgs.fn)[k + 1].call = "notify_send" /\ ~modeArgs.notify
         THEN <<"done", k + 1>>
    ELSE <<"mode", k + 1>>

(* Where control goes after statement number k of a mode function whose
   wrapper call gave `result`: an exception ends the program; the
   notification is skipped unless notify; after the last statement the
   function returns to main(), which returns. *)
AfterStatement(k, result) ==
    IF Raised(result) THEN <<"crashed", k>>
    ELSE IF k + 1 > Len(Body(modeArgs.fn)) THEN <<"done", k + 1>>
    ELSE IF Body(modeArgs.fn)[k + 1].call = "notify_send" /\ ~modeArgs.notify
         THEN <<"done", k + 1>>
    ELSE <<"mode", k + 1>>

Statement == Body(modeArgs.fn)[step]

(* A systemctl(...) statement of default_mode, laptop_mode or tablet_mode. *)
ModeSystemctl ==
    /\ pc = "mode"
    /\ Statement.call = "systemctl"
    /\ SystemctlCall(Statement.action, Statement.unit, TRUE, modeArgs.sudo)
    /\ pc' = AfterStatement(step, LastResult(calls'))[1]
    /\ step' = AfterStatement(step, LastResult(calls'))[2]
    /\ UNCHANGED <<execFaults, mainLocals, toggleArgs, modeArgs, stderrOut, pre, prev>>
    /\ UNCHANGED daemonVars

(* The set_osk_state(...) statement. *)
ModeSetOsk ==
    /\ pc = "mode"
    /\ Statement.call = "set_osk_state"
    /\ OskCall(Statement.state)
    /\ pc' = AfterStatement(step, LastResult(calls'))[1]
    /\ step' = AfterStatement(step, LastResult(calls'))[2]
    /\ UNCHANGED <<execFaults, mainLocals, toggleArgs, modeArgs, stderrOut, pre, prev>>
    /\ UNCHANGED daemonVars

(* The notification under "if notify:". *)
ModeNotify ==
    /\ pc = "mode"
    /\ Statement.call = "notify_send"
    /\ NotifyCall(Statement.command)
    /\ pc' = AfterStatement(step, LastResult(calls'))[1]
    /\ step' = AfterStatement(step, LastResult(calls'))[2]
    /\ UNCHANGED <<execFaults, mainLocals, toggleArgs, modeArgs, stderrOut, pre, prev>>
    /\ UNCHANGED daemonVars

CliNext == Main \/ ToggleMode \/ ModeSystemctl \/ ModeSetOsk \/ ModeNotify

CliInit ==
    /\ laptopActive \in BOOLEAN
    /\ tabletActive \in BOOLEAN
    /\ oskEnabled \in BOOLEAN
    /\ pc = "idle"
    /\ step = 1
    /\ mainLocals = [mode |-> NoMode, argNotify |-> FALSE, config |-> <<>>,
                     notify |-> FALSE, sudo |-> SUDO]
    /\ toggleArgs = NoArgs
    /\ modeArgs = NoArgs
    /\ calls = <<>>
    /\ stderrOut = <<>>
    /\ normal = ~(laptopActive /\ tabletActive)
    /\ opNormal = TRUE
    /\ pre = <<laptopActive, tabletActive>>
    /\ prev = NoInvocation

DaemonIdle ==
    /\ dpc = "idle"
    /\ dconfig = <<>>
    /\ dmode = NoMode
    /\ devices = <<>>
    /\ dlog = <<>>
    /\ subprocesses = <<>>
    /\ nextDevice = 1
    /\ nextWait = 1
    /\ children = <<>>
    /\ events = <<>>

(* The mode setter where every external command can be executed and yields
   an exit status. *)
Init == CliInit /\ execFaults = FALSE /\ DaemonIdle
Spec == Init /\ [][CliNext]_vars

(* The mode setter where, besides, a command may fail to execute at all. *)
InitExec == CliInit /\ execFaults = TRUE /\ DaemonIdle
SpecExec == InitExec /\ [][CliNext]_vars

----------------------------------------------------------------------------
(* The mode daemon, daemon.py *)

EVTEST == "/usr/bin/evtest"
GSETTINGS == "/usr/bin/gsettings"
GNOME_OSK == "set org.gnome.desktop.a11y.applications screen-keyboard-enabled"

MaxDevices == 2
DevicePaths == {"/dev/input/event3", "/dev/input/event4"}
DeviceLists == UNION {[1..n -> DevicePaths] : n \in 0..MaxDevices}
DaemonModes == {"laptop", "tablet"}

(* Configurations: each of the keys laptop and tablet is absent or holds a
   list of device paths. *)
DaemonConfigs ==
    UNION {[keys -> DeviceLists] : keys \in SUBSET DaemonModes}

(* Faulty variant: only the first configured device is returned. *)
get_devices_FirstOnly(config, mode) ==
    LET found == Get(config, mode, <<>>)
    IN  IF Len(found) = 0 THEN <<>> ELSE <<found[1]>>

(* get_devices(): devices = config.get(mode) or (); return devices.
   config.get gives None for an absent key, and None and the empty list are
   both falsy. *)
get_devices(config, mode) ==
    LET found == Get(config, mode, <<>>)
    IN  IF Len(found) = 0 THEN <<>> ELSE found

(* get_devices(): if not devices: LOGGER.info(...) *)
get_devices_log(devs) ==
    IF Len(devs) = 0 THEN <<"No devices configured to disable.">> ELSE <<>>

(* set_osk_state(mode): Popen((GSETTINGS, f"{GNOME_OSK} {...}")); the second
   argument is one string, given here as the pieces the f-string joins. *)
daemon_set_osk_state(mode) ==
    <<GSETTINGS, <<GNOME_OSK, " ", lower(str(mode = "tablet"))>>>>

(* disable_device(device): Popen((EVTEST, '--grab', device)) *)
disable_device(device) == <<EVTEST, "--grab", device>>

(* Popen(argv): a new running child; its handle is its index. *)
Popen(argv) == Append(children, [argv |-> argv, exited |-> FALSE, rc |-> 0])

(* Faulty variant: poll() in place of wait(): returns at once. *)
wait_returns_Poll(child) == TRUE

(* Popen.wait() returns once the child has exited. *)
wait_returns(child) == child.exited

(* set_mode(): where control goes once k devices have been grabbed: on to
   the next device, or to the loop of waits. *)
after_spawn(k, devs) == IF k < Len(devs) THEN "spawn_device" ELSE "wait"

(* main() -> set_mode(mode): devices = get_devices(mode); subprocesses = [] *)
SetMode ==
    /\ dpc \in {"idle", "returned"}
    /\ \E mode \in DaemonModes \cup {NoMode}, config \in DaemonConfigs :
         /\ dmode' = mode
         /\ dconfig' = config
         /\ devices' = get_devices(config, mode)
         /\ dlog' = get_devices_log(get_devices(config, mode))
    /\ subprocesses' = <<>>
    /\ children' = <<>>
    /\ events' = <<>>
    /\ nextDevice' = 1
    /\ nextWait' = 1
    /\ dpc' = "spawn_osk"
    /\ UNCHANGED cliVars

(* subprocesses.append(set_osk_state(mode)) *)
SpawnOsk ==
    /\ dpc = "spawn_osk"
    /\ children' = Popen(daemon_set_osk_state(dmode))
    /\ subprocesses' = Append(subprocesses, Len(children'))
    /\ events' = Append(events, <<"spawn", Len(children')>>)
    /\ dpc' = after_spawn(0, devices)
    /\ UNCHANGED <<dconfig, dmode, devices, dlog, nextDevice, nextWait>>
    /\ UNCHANGED cliVars

(* for device in devices: subprocesses.append(disable_device(device)) *)
SpawnDevice ==
    /\ dpc = "spawn_device"
    /\ children' = Popen(disable_device(devices[nextDevice]))
    /\ subprocesses' = Append(subprocesses, Len(children'))
    /\ events' = Append(events, <<"spawn", Len(children')>>)
    /\ nextDevice' = nextDevice + 1
    /\ dpc' = after_spawn(nextDevice, devices)
    /\ UNCHANGED <<dconfig, dmode, devices, dlog, nextWait>>
    /\ UNCHANGED cliVars

(* for subprocess in subprocesses: subprocess.wait(); then set_mode returns *)
Wait ==
    /\ dpc = "wait"
    /\ wait_returns(children[subprocesses[nextWait]])
    /\ events' = Append(events, <<"wait", subprocesses[nextWait]>>)
    /\ nextWait' = nextWait + 1
    /\ dpc' = IF nextWait < Len(subprocesses) THEN "wait" ELSE "returned"
    /\ UNCHANGED <<dconfig, dmode, devices, dlog, subprocesses, nextDevice, children>>
    /\ UNCHANGED cliVars

(* The environment: a running child exits with some status. *)
ChildExit ==
    /\ \E k \in DOMAIN children, rc \in ExitCodes :
         /\ ~children[k].exited
         /\ children' = [children EXCEPT ![k] = [@ EXCEPT !.exited = TRUE, !.rc = rc]]
    /\ UNCHANGED <<dpc, dconfig, dmode, devices, dlog, subprocesses, nextDevice, nextWait, events>>
    /\ UNCHANGED cliVars

DaemonNext == SetMode \/ SpawnOsk \/ SpawnDevice \/ Wait \/ ChildExit

CliIdle ==
    /\ CliInit
    /\ ~laptopActive /\ ~tabletActive /\ ~oskEnabled
    /\ execFaults = FALSE

InitDaemon == CliIdle /\ DaemonIdle
SpecDaemon == InitDaemon /\ [][DaemonNext]_vars

----------------------------------------------------------------------------
(* Reading the call log *)

IsSystemctl(c, action, unit) ==
    /\ c.wrapper = "systemctl"
    /\ c.argv[Len(c.argv) - 1] = action
    /\ c.argv[Len(c.argv)] = unit

Opposing(unit) ==
    IF unit = LAPTOP_MODE_SERVICE THEN TABLET_MODE_SERVICE ELSE LAPTOP_MODE_SERVICE

Argvs(cs) == [i \in 1..Len(cs) |-> cs[i].argv]

StatusCalls == SelectSeq(calls, LAMBDA c : c.wrapper = "systemctl" /\ c.argv[Len(c.argv) - 1] = "status")
NotifyCalls == SelectSeq(calls, LAMBDA c : c.wrapper = "notify_send")
(* The calls of the mode function itself: all but toggle_mode's status call. *)
ModeCalls == SelectSeq(calls, LAMBDA c : ~(c.wrapper = "systemctl" /\ c.argv[Len(c.argv) - 1] = "status"))
(* The service and on-screen-keyboard calls of the mode function. *)
StepCalls == SelectSeq(ModeCalls, LAMBDA c : c.wrapper # "notify_send")

IsPrefix(a, b) == Len(a) <= Len(b) /\ \A i \in 1..Len(a) : a[i] = b[i]

Returned == pc = "done" /\ mainLocals.mode \in Modes
ExactlyOne(units) == units[1] # units[2]

----------------------------------------------------------------------------
(* C1: under normal operation (at most one unit ran at first, and every
   systemctl stop/start since exited 0 and took effect) at most one of
   laptop-mode.service and tablet-mode.service runs in every state,
   including those between the systemctl calls of one operation. *)
C1_AtMostOneService ==
    normal => ~(laptopActive /\ tabletActive)

(* tablet_mode between its stop and its start, entered from laptop mode
   after an earlier invocation. *)
C1_Witness ==
    /\ normal
    /\ pc = "mode" /\ step = 2 /\ modeArgs.fn = "tablet"
    /\ pre = <<TRUE, FALSE>>
    /\ ~laptopActive /\ ~tabletActive
    /\ prev.mode = "toggle"

(* C2: within one invocation every systemctl start of a unit comes after a
   completed systemctl stop of the opposing unit: laptop_mode stops
   tablet-mode.service before it starts laptop-mode.service, tablet_mode
   stops laptop-mode.service before it starts tablet-mode.service. *)
C2_StopBeforeStart ==
    \A i \in DOMAIN calls :
        \A unit \in {LAPTOP_MODE_SERVICE, TABLET_MODE_SERVICE} :
            IsSystemctl(calls[i], "start", unit) =>
                \E j \in 1..(i - 1) :
                    /\ IsSystemctl(calls[j], "stop", Opposing(unit))
                    /\ ~Raised(calls[j].result)

(* toggle_mode resolved to laptop_mode and its start has been issued, after
   a stop that failed. *)
C2_Witness ==
    /\ mainLocals.mode = "toggle"
    /\ \E i \in DOMAIN calls :
         /\ IsSystemctl(calls[i], "start", LAPTOP_MODE_SERVICE)
         /\ IsSystemctl(calls[i - 1], "stop", TABLET_MODE_SERVICE)
         /\ ~calls[i - 1].result.value

(* C3: once toggle_mode has sampled the status of tablet-mode.service, it
   has done so exactly once, without sudo, and it runs exactly one mode
   function: laptop_mode if the status call returned true, tablet_mode if it
   returned false, with main's notify and sudo; the choice reads nothing of
   laptop-mode.service. *)
C3_ToggleChoice ==
    (mainLocals.mode = "toggle" /\ pc \in {"mode", "done"}) =>
        /\ Len(StatusCalls) = 1
        /\ calls[1].argv = <<"systemctl", "status", TABLET_MODE_SERVICE>>
        /\ modeArgs.fn = (IF calls[1].result.value THEN "laptop" ELSE "tablet")
        /\ modeArgs.notify = mainLocals.notify
        /\ modeArgs.sudo = mainLocals.sudo
        /\ \A i \in 1..Len(ModeCalls) :
             ModeCalls[i].wrapper = Body(modeArgs.fn)[i].call
        /\ \A i \in 1..Len(ModeCalls) :
             Body(modeArgs.fn)[i].call = "systemctl" =>
                IsSystemctl(ModeCalls[i], Body(modeArgs.fn)[i].action,
                            Body(modeArgs.fn)[i].unit)

(* A toggle that found the tablet unit active while the laptop unit ran
   too, and has run laptop_mode to its end with a configured sudo. *)
C3_Witness ==
    /\ mainLocals.mode = "toggle" /\ pc = "done"
    /\ pre = <<TRUE, TRUE>>
    /\ modeArgs.fn = "laptop"
    /\ mainLocals.notify /\ mainLocals.sudo # SUDO
    /\ Len(ModeCalls) = 4

(* C4: a mode operation that has returned called set_osk_state exactly
   once, and the last argument of its gsettings command is "true" for
   tablet_mode and "false" for laptop_mode and default_mode. *)
C4_OskArgument ==
    /\ Len(OskArgs(calls)) <= 1
    /\ Returned =>
        OskArgs(calls) = <<IF modeArgs.fn = "tablet" THEN "true" ELSE "false">>

(* A toggle that resolved to tablet_mode and returned. *)
C4_Witness ==
    /\ Returned /\ mainLocals.mode = "toggle" /\ modeArgs.fn = "tablet"
    /\ OskArgs(calls) = <<"true">>

(* C5: set_mode spawns one keyboard-toggle child and one evtest grab per
   configured device, each device once and nothing else; every spawn comes
   before the first completed wait; and when set_mode has returned there are
   exactly N+1 children, N the number of devices configured for the mode, and
   every one of them has exited, whatever its exit code. *)
Configured == Get(dconfig, dmode, <<>>)

C5_FanOutFanIn ==
    /\ \A i \in DOMAIN events : \A j \in DOMAIN events :
         (i < j /\ events[i][1] = "wait") => events[j][1] = "wait"
    /\ Len(children) <= Len(Configured) + 1
    /\ \A k \in DOMAIN children :
         IF k = 1 THEN children[k].argv[1] = GSETTINGS
         ELSE children[k].argv = <<EVTEST, "--grab", Configured[k - 1]>>
    /\ dpc \in {"wait", "returned"} => Len(children) = Len(Configured) + 1
    /\ dpc = "returned" => \A k \in DOMAIN children : children[k].exited

(* set_mode has returned with two grabs and the keyboard toggle, one child
   having failed and one having exited before it was waited for. *)
C5_Witness ==
    /\ dpc = "returned"
    /\ Len(Configured) = 2 /\ Len(children) = 3
    /\ children[1].rc = 1 /\ children[2].rc = 0 /\ children[3].rc = 1
    /\ events = <<<<"spawn", 1>>, <<"spawn", 2>>, <<"spawn", 3>>,
                  <<"wait", 1>>, <<"wait", 2>>, <<"wait", 3>>>>

(* C6 as stated: systemctl and set_osk_state return true exactly when the
   command exited with status 0, return false for every other outcome, and
   never raise. *)
C6_NeverRaises ==
    \A i \in DOMAIN calls :
        calls[i].wrapper \in {"systemctl", "set_osk_state"} =>
            /\ ~Raised(calls[i].result)
            /\ calls[i].result.value =
                 (calls[i].outcome.spawned /\ calls[i].outcome.rc = 0)

(* C6 as amended: for a command that ran, systemctl and set_osk_state return
   true exactly when it exited with status 0 and false for every other exit
   status, with or without sudo, and do not raise; when the command could
   not be executed at all, the OSError of check_call propagates to the
   caller. *)
C6_FalseOnNonZeroExit ==
    \A i \in DOMAIN calls :
        calls[i].wrapper \in {"systemctl", "set_osk_state"} =>
            IF calls[i].outcome.spawned
            THEN /\ ~Raised(calls[i].result)
                 /\ calls[i].result.value = (calls[i].outcome.rc = 0)
            ELSE /\ calls[i].result.raised = "OSError"
                 /\ pc = "crashed"
                 /\ i = Len(calls)

(* A systemctl call through sudo that exited non-zero and returned false,
   then a gsettings call that exited non-zero and returned false. *)
C6_Witness ==
    /\ Len(calls) = 3
    /\ calls[2].wrapper = "systemctl" /\ calls[2].argv[1] = mainLocals.sudo
    /\ calls[2].outcome = Exited(1) /\ calls[2].result = Return(FALSE)
    /\ calls[3].wrapper = "set_osk_state"
    /\ calls[3].outcome = Exited(1) /\ calls[3].result = Return(FALSE)

(* C7: default_mode, laptop_mode and tablet_mode never end in an exception,
   issue their steps in the fixed order whatever the earlier steps returned,
   issue no other service or keyboard call (nothing is undone), and when they
   have returned all three steps have been issued. *)
ExpectedSteps(fn, sudo) ==
    CASE fn = "default" ->
           << <<sudo, "systemctl", "stop", LAPTOP_MODE_SERVICE>>,
              <<sudo, "systemctl", "stop", TABLET_MODE_SERVICE>>,
              <<"/usr/bin/gsettings", "set", "org.gnome.desktop.a11y.applications",
                "screen-keyboard-enabled", "false">> >>
      [] fn = "laptop" ->
           << <<sudo, "systemctl", "stop", TABLET_MODE_SERVICE>>,
              <<sudo, "systemctl", "start", LAPTOP_MODE_SERVICE>>,
              <<"/usr/bin/gsettings", "set", "org.gnome.desktop.a11y.applications",
                "screen-keyboard-enabled", "false">> >>
      [] fn = "tablet" ->
           << <<sudo, "systemctl", "stop", LAPTOP_MODE_SERVICE>>,
              <<sudo, "systemctl", "start", TABLET_MODE_SERVICE>>,
              <<"/usr/bin/gsettings", "set", "org.gnome.desktop.a11y.applications",
                "screen-keyboard-enabled", "true">> >>
      [] OTHER -> <<>>

NotifyWanted ==
    \/ ("notify" \in DOMAIN mainLocals.config /\ mainLocals.config["notify"])
    \/ mainLocals.argNotify

ExpectedNotification(fn) ==
    CASE fn = "default" ->
           <<"/usr/bin/notify-send", "Default mode.", "The system is now in default mode.">>
      [] fn = "laptop" ->
           <<"/usr/bin/notify-send", "Laptop mode.", "The system is now in laptop mode.">>
      [] fn = "tablet" ->
           <<"/usr/bin/notify-send", "Tablet mode.", "The system is now in tablet mode.">>
      [] OTHER -> <<>>

C8_OneNotification ==
    /\ Len(NotifyCalls) <= 1
    /\ Len(NotifyCalls) = 1 =>
         /\ NotifyWanted
         /\ Len(StepCalls) = 3
         /\ calls[Len(calls)].wrapper = "notify_send"
    /\ Returned =>
         Argvs(NotifyCalls) = IF NotifyWanted THEN <<ExpectedNotification(modeArgs.fn)>>
                              ELSE <<>>

(* A toggle with notify false in the configuration and -n given, which
   entered laptop mode and sent the laptop notification. *)
C8_Witness ==
    /\ Returned /\ mainLocals.mode = "toggle" /\ modeArgs.fn = "laptop"
    /\ "notify" \in DOMAIN mainLocals.config /\ ~mainLocals.config["notify"]
    /\ mainLocals.argNotify
    /\ Len(NotifyCalls) = 1

(* C9: get_devices returns exactly the list configured under the mode key,
   the empty sequence (with its informational log line and no error) when
   the key is absent, and set_mode grabs the devices in that order. *)
C9_DevicesAsConfigured ==
    dpc # "idle" =>
        /\ devices = (IF dmode \in DOMAIN dconfig THEN dconfig[dmode] ELSE <<>>)
        /\ dmode \notin DOMAIN dconfig => dlog = <<"No devices configured to disable.">>
        /\ \A k \in 2..Len(children) :
             children[k].argv[Len(children[k].argv)] = Configured[k - 1]
        /\ dpc \in {"wait", "returned"} => Len(children) - 1 = Len(Configured)

(* Two different devices configured and grabbed in the configured order. *)
C9_Witness ==
    /\ dpc = "wait"
    /\ dmode = "tablet" /\ dmode \in DOMAIN dconfig
    /\ dconfig[dmode] = <<"/dev/input/event4", "/dev/input/event3">>
    /\ children[2].argv[3] = "/dev/input/event4"
    /\ children[3].argv[3] = "/dev/input/event3"

(* C10: a toggle that returned and met only normal systemctl calls (every
   stop and start exited 0 and took effect, status told the truth) has
   flipped tablet-mode.service and left exactly one unit running; if the
   previous invocation was such a toggle too and began with exactly one unit
   running, the units are back as they were then and the keyboard value sent
   is the one of that mode; and two such toggles from the default state give
   tablet mode, then laptop mode. *)
C10_ToggleInvolution ==
    (pc = "done" /\ mainLocals.mode = "toggle" /\ opNormal) =>
        /\ tabletActive = ~pre[2]
        /\ laptopActive # tabletActive
        /\ (prev.mode = "toggle" /\ ExactlyOne(prev.pre)) =>
             /\ <<laptopActive, tabletActive>> = prev.pre
             /\ OskArgs(calls) = <<IF prev.pre[2] THEN "true" ELSE "false">>
        /\ (prev.mode = "toggle" /\ prev.pre = <<FALSE, FALSE>>) =>
             /\ prev.post = <<FALSE, TRUE>>
             /\ <<laptopActive, tabletActive>> = <<TRUE, FALSE>>

(* The second of two toggles that began in laptop mode. *)
C10_Witness ==
    /\ pc = "done" /\ mainLocals.mode = "toggle" /\ opNormal
    /\ prev.mode = "toggle" /\ prev.pre = <<TRUE, FALSE>>
    /\ prev.post = <<FALSE, TRUE>>
    /\ laptopActive /\ ~tabletActive

====
